---- MODULE Spec2Model ----
(***************************************************************************)
(* State-machine model of PythonCustomScripts/reencode.py: the segmenting, *)
(* resumable re-encoder (main_process), its process supervisor             *)
(* (run_ffmpeg_command), the Ctrl+C handler and the staging directory.     *)
(*                                                                         *)
(* Times are integers in milliseconds (the code uses float seconds);       *)
(* --segment-length is an integer number of seconds, as argparse parses    *)
(* it.  The backend (ffmpeg) and the prober (ffprobe) are black boxes: a   *)
(* backend process ends with exit status zero or nonzero, on its own or    *)
(* in answer to a stop request, and a probe returns the duration stored    *)
(* with the file (a non-positive value when it cannot be determined).      *)
(***************************************************************************)
EXTENDS Integers, Sequences, FiniteSets, TLC

VARIABLES
    config,                      \* argparse.Namespace: fixed for the run
    final,                       \* staging dir: <stem>_segNNNN<ext>, by segment number
    part,                        \* staging dir: <stem>_segNNNN<ext>.part
    dest,                        \* final_output_file
    manifest,                    \* <stem>_filelist_temp.txt exists
    segdir,                      \* segments_dir exists
    stop_requested_event,
    force_stop_requested_event,
    pc,                          \* position of the control thread in main_process
    calculated_segments_info,
    completed_segment_paths,     \* segment numbers, in append order
    resume_segment_idx,
    i,                           \* loop variable of the scan and the encoding loop
    success,                     \* last value returned by run_ffmpeg_command
    exit_code,                   \* sys.exit status, NotExited while running
    outcome,                     \* which terminal message was printed
    sup,                         \* position inside run_ffmpeg_command
    process,                     \* the Popen object and the child behind it
    orphans,                     \* children left running by a returned supervisor
    waited,                      \* seconds of shutdown-ladder timeouts elapsed
    fs0,                         \* history: final artifacts when the run started
    dest0,                       \* history: final_output_file when the run started
    launched,                    \* history: backend invocations of this run, in order
    deleted,                     \* history: final artifacts unlinked/removed this run
    stopAt,                      \* history: pc when the graceful flag was set
    finalAtStop,                 \* history: final artifacts when the flag was set
    completedAtStop,             \* history: completed_segment_paths at that moment
    abortedSeg,                  \* history: segments whose child a stop request shut down
    failedSeg,                   \* history: segments whose encode or promotion failed
    superseded,                  \* history, over all runs: artifacts found beyond the
                                 \* resume index of a scan and not re-encoded since
    seq,                         \* prepare_sequence.py: its directories and locals
    resample,                    \* resample_and_encode.py: its folder and locals
    part_items                   \* the .part files the orphan cleanup found (segment
                                 \* numbers), forgotten when the resume scan starts

reencodeVars == <<config, final, part, dest, manifest, segdir, stop_requested_event,
          force_stop_requested_event, pc, calculated_segments_info,
          completed_segment_paths, resume_segment_idx, i, success, exit_code,
          outcome, sup, process, orphans, waited, fs0, dest0, launched,
          deleted, stopAt, finalAtStop, completedAtStop, abortedSeg,
          failedSeg, superseded, part_items>>

vars == <<reencodeVars, seq, resample>>

----
(* Program constants, in milliseconds where they are times. *)

MIN_SEGMENT_MS == 10
TOLERANCE_FLOOR_MS == 100
TOLERANCE_PERCENT == 2

(* Shutdown-ladder timeouts, in seconds. *)
FFMPEG_SHUTDOWN_TIMEOUT_Q == 10
FFMPEG_SHUTDOWN_TIMEOUT_SIG == 8
FFMPEG_SHUTDOWN_TIMEOUT_TERM == 5

(* Segment numbers of the files the staging directory can hold. *)
MaxSegs == 3

(* Source durations (ms) and segment lengths (s) the planner is tried on. *)
MaxDuration == 3100
MaxSegmentLength == 3
SegIdx == 1..MaxSegs

NotExited == 0 - 1

Min(a, b) == IF a < b THEN a ELSE b
Max(a, b) == IF a > b THEN a ELSE b
Abs(a) == IF a < 0 THEN 0 - a ELSE a

----
(* Files.  A file is a record; an absent file is the record NoFile.  dur   *)
(* is what get_file_duration returns for it; new says it was written by    *)
(* the current run.                                                        *)

NoFile == [exists |-> FALSE, dur |-> 0, new |-> FALSE]
File(d, n) == [exists |-> TRUE, dur |-> d, new |-> n]
NoFiles == [s \in SegIdx |-> NoFile]

----
(* calculate_segments *)

(* Faulty variant: the end of a segment is not clamped to the total. *)
UnclampedEnd(current_time, segment_length, total_duration) ==
    current_time + segment_length

(* Line 197. *)
ClampedEnd(current_time, segment_length, total_duration) ==
    Min(current_time + segment_length, total_duration)

(* Faulty variant: a tiny trailing segment is emitted. *)
NeverTooShort(segment_duration) == FALSE

(* Line 201. *)
TooShort(segment_duration) == segment_duration < MIN_SEGMENT_MS

RECURSIVE SegmentsFrom(_, _, _)
SegmentsFrom(current_time, total_duration, segment_length) ==
    IF ~(current_time < total_duration)
    THEN <<>>
    ELSE LET start_time == current_time
             end_time == ClampedEnd(current_time, segment_length, total_duration)
             segment_duration == end_time - start_time
         IN IF TooShort(segment_duration)
            THEN <<>>
            ELSE <<[start |-> start_time, end |-> end_time,
                    duration |-> segment_duration]>>
                 \o SegmentsFrom(current_time + segment_length, total_duration,
                                 segment_length)

calculate_segments(total_duration, segment_length) ==
    IF total_duration <= 0 \/ segment_length <= 0
    THEN <<>>
    ELSE SegmentsFrom(0, total_duration, segment_length * 1000)

----
(* The resume scan's duration check. *)

duration_tolerance_x100(expected_seg_duration) ==
    Max(100 * TOLERANCE_FLOOR_MS, expected_seg_duration * TOLERANCE_PERCENT)

(* Faulty variant: a difference equal to the tolerance passes. *)
DurationAcceptedInclusive(actual_seg_duration, expected_seg_duration) ==
    /\ actual_seg_duration > 0
    /\ 100 * Abs(actual_seg_duration - expected_seg_duration)
          <= duration_tolerance_x100(expected_seg_duration)

DurationAccepted(actual_seg_duration, expected_seg_duration) ==
    /\ actual_seg_duration > 0
    /\ 100 * Abs(actual_seg_duration - expected_seg_duration)
          < duration_tolerance_x100(expected_seg_duration)

----
(* Inputs of a run: the probed duration of the source (ms, -1000 when the  *)
(* probe fails) and --segment-length (s).  1050/1 plans a 50 ms tail       *)
(* segment, 12000/5 is three segments, 1005/1 drops a 5 ms tail; a source  *)
(* may also probe as empty (0).                                            *)

Inputs ==
    { [total_duration |-> 1050, segment_length |-> 1],
      [total_duration |-> 12000, segment_length |-> 5],
      [total_duration |-> 1005, segment_length |-> 1],
      [total_duration |-> 5, segment_length |-> 1],
      [total_duration |-> 0, segment_length |-> 1],
      [total_duration |-> 0 - 1000, segment_length |-> 1] }

(* What ffprobe answers to the audio-stream query of has_audio_stream: an  *)
(* audio stream, none, or no usable answer (tool missing, timeout,         *)
(* unparseable output).  All three are explored on the one-segment source. *)
AudioProbes(input) ==
    IF input = [total_duration |-> 1005, segment_length |-> 1]
    THEN {"present", "absent", "error"}
    ELSE {"present"}

(* Lines 449-452: the staging directory is <stem>_segments beside the      *)
(* destination, or the directory given with --segments-dir, which may be   *)
(* the destination's own directory or one above it.  The custom choice is  *)
(* explored on the one-segment source with audio.                          *)
StagingDirs(input, audio) ==
    IF input = [total_duration |-> 1005, segment_length |-> 1]
          /\ audio = "present"
    THEN {"default", "holds_destination"}
    ELSE {"default"}

Configs(inputs) ==
    { c \in [input : inputs, audio : {"present", "absent", "error"},
             segments_dir : {"default", "holds_destination"},
             overwrite_final_output : BOOLEAN, keep_segments : BOOLEAN] :
         /\ c.audio \in AudioProbes(c.input)
         /\ c.segments_dir \in StagingDirs(c.input, c.audio) }

Planned(c) == calculate_segments(c.total_duration, c.segment_length)

(* Smallest difference (ms) the duration check rejects. *)
RejectedFrom(e) == (duration_tolerance_x100(e) + 99) \div 100

(* Durations a probe of an existing artifact of expected duration e may    *)
(* return: unknown (-1.0 s), zero, exact, the first rejected difference   *)
(* (an artifact cut short) and the last accepted one; never another        *)
(* negative.                                                               *)
ProbeChoices(e) ==
    { d \in { 0 - 1000, 0, e, e - RejectedFrom(e), e - RejectedFrom(e) + 1 } :
         d >= 0 \/ d = 0 - 1000 }

(* Durations of a segment file whose encode was cut short by a stop. *)
TruncatedChoices(e) == { d \in ProbeChoices(e) : d >= 0 /\ d < e }

(* Final artifacts an earlier run left in the staging directory.  A source *)
(* that no longer probes may still have the first artifact of a run made   *)
(* when it did.                                                            *)
InitialFinals(c) ==
    LET segs == Planned(c)
    IN IF c.total_duration <= 0
       THEN {NoFiles, [NoFiles EXCEPT ![1] = File(1000, FALSE)]}
       ELSE
       { f \in [SegIdx -> {NoFile} \cup { File(d, FALSE) : d \in
                    UNION { ProbeChoices(segs[k].duration) : k \in 1..Len(segs) } }] :
           \A s \in SegIdx :
              /\ s > Len(segs) => f[s] = NoFile
              /\ (s <= Len(segs) /\ f[s].exists)
                    => f[s].dur \in ProbeChoices(segs[s].duration) }

(* Orphaned .part files of an earlier run: none, or one. *)
InitialParts ==
    {NoFiles} \cup { [NoFiles EXCEPT ![s] = File(0, FALSE)] : s \in SegIdx }

NoProcess ==
    [state |-> "none", status |-> "none", returncode |-> "None",
     stdin_closed |-> FALSE, forced |-> FALSE, kind |-> "none", seg |-> 0,
     audio |-> "none", filelist |-> <<>>, stages |-> <<>>, drain_threads |-> 0]

----
(* prepare_sequence.py: frames of an input directory are copied to an      *)
(* output directory under consecutive numbers, with large index gaps       *)
(* filled by copies of the frame before the gap.                           *)

MaxFrameIndex == 6
MaxThreshold == 3

IMAGE_EXTENSIONS == {".png", ".jpg", ".jpeg", ".bmp"}

(* A file of the input directory: the number its stem reads as, whether    *)
(* the stem is all digits, and its extension.                              *)
Frame(k) == [index |-> k, digits |-> TRUE, ext |-> ".png"]

OtherFiles ==
    { [index |-> 0, digits |-> FALSE, ext |-> ".png"],
      [index |-> 2, digits |-> TRUE, ext |-> ".txt"] }

(* Input directories: uniquely indexed frames, with or without files that  *)
(* are not frames; the output directory does not exist yet.                *)
Listings ==
    { { Frame(k) : k \in F } \cup O :
         F \in SUBSET (0..MaxFrameIndex), O \in SUBSET OtherFiles }

Thresholds == (0 - 1)..MaxThreshold

NoFrame == [index |-> 0, digits |-> FALSE, ext |-> ""]

(* The script not started. *)
SeqIdle ==
    [pc |-> "idle", listing |-> {}, thresh |-> 0, valid |-> <<>>, pos |-> 0,
     out_idx |-> 0, prev_idx |-> 0, prev_file |-> NoFrame, outdir |-> <<>>,
     total |-> 0, exit_code |-> NotExited]

(* Lines 50-51: numeric stem and an image extension. *)
IsValid(fn) == fn.digits /\ fn.ext \in IMAGE_EXTENSIONS

(* Line 58: the files of S sorted by numeric index, smallest first. *)
RECURSIVE SortedByIndex(_)
SortedByIndex(S) ==
    IF S = {}
    THEN <<>>
    ELSE LET first == CHOOSE f \in S : \A g \in S : f.index <= g.index
         IN <<first>> \o SortedByIndex(S \ {first})

(* Faulty variant: a gap equal to the threshold is filled too. *)
LargeGapInclusive(gap, thresh) == gap >= thresh

(* Line 90. *)
IsLargeGap(gap, thresh) == gap > thresh

(* shutil.copyfile into the output directory: the name is the number       *)
(* out_idx (zero-padded in the file name), an existing file is replaced.   *)
CopyTo(dir, fn, out_idx) ==
    [n \in (DOMAIN dir) \cup {out_idx} |-> IF n = out_idx THEN fn ELSE dir[n]]

(* Lines 93-99: the previous frame copied missing times from out_idx on. *)
RECURSIVE FillGap(_, _, _, _)
FillGap(dir, prev_file, out_idx, missing) ==
    IF missing <= 0
    THEN dir
    ELSE FillGap(CopyTo(dir, prev_file, out_idx), prev_file, out_idx + 1,
                 missing - 1)

(* Lines 44-70: files gathered, filtered and sorted; none left is exit 1. *)
GatherFrames ==
    /\ seq.pc = "start"
    /\ LET valid == SortedByIndex({ fn \in seq.listing : IsValid(fn) })
       IN IF valid = <<>>
          THEN seq' = [seq EXCEPT !.pc = "exited", !.exit_code = 1]
          ELSE seq' = [seq EXCEPT !.pc = "copy", !.valid = valid,
                                  !.out_idx = 1]
    /\ UNCHANGED <<reencodeVars, resample>>

(* Lines 73-109: one iteration of the copy loop. *)
CopyFrame ==
    /\ seq.pc = "copy"
    /\ seq.pos < Len(seq.valid)
    /\ LET fn == seq.valid[seq.pos + 1]
           curr_idx == fn.index
           gap == curr_idx - seq.prev_idx
           first == seq.prev_file = NoFrame
           missing == IF ~first /\ IsLargeGap(gap, seq.thresh)
                      THEN gap - 1
                      ELSE 0
           filled == FillGap(seq.outdir, seq.prev_file, seq.out_idx, missing)
           out_idx == seq.out_idx + Max(missing, 0)
       IN seq' = [seq EXCEPT !.outdir = CopyTo(filled, fn, out_idx),
                             !.prev_idx = curr_idx,
                             !.prev_file = fn,
                             !.out_idx = out_idx + 1,
                             !.pos = seq.pos + 1]
    /\ UNCHANGED <<reencodeVars, resample>>

(* Lines 111-112. *)
ReportTotal ==
    /\ seq.pc = "copy"
    /\ seq.pos = Len(seq.valid)
    /\ seq' = [seq EXCEPT !.pc = "exited", !.total = seq.out_idx - 1,
                          !.exit_code = 0]
    /\ UNCHANGED <<reencodeVars, resample>>

----
(* resample_and_encode.py: the numbered frames of a folder are thinned to  *)
(* the target frame rate in place, the survivors renamed to 1..K, and the  *)
(* folder encoded.  A file is its number (all names have the same width)   *)
(* and its content, named by the number it had at the start.               *)

MaxFrames == 5
MaxStart == 2

(* <<orig_fps, target_fps>>: ratios a float holds exactly, so that the     *)
(* script's floor and round are those of the exact quotient.               *)
FrameRates ==
    { <<3, 2>>, <<2, 1>>, <<5, 2>>, <<3, 1>>, <<5, 4>>, <<4, 1>>, <<2, 2>>,
      <<2, 3>> }

(* A folder of n frames numbered from start. *)
FramesFrom(start, n) ==
    { [num |-> k, content |-> k] : k \in start..(start + n - 1) }

ResampleIdle ==
    [pc |-> "idle", platform |-> "posix", folder |-> {}, orig_fps |-> 1,
     target_fps |-> 1, entries |-> <<>>, K |-> 0, keep |-> <<>>,
     renamed |-> 0, exit_code |-> NotExited]

(* Line 23: the numbers of S in increasing order. *)
RECURSIVE SortedNumbers(_)
SortedNumbers(S) ==
    IF S = {}
    THEN <<>>
    ELSE LET first == CHOOSE k \in S : \A m \in S : k <= m
         IN <<first>> \o SortedNumbers(S \ {first})

(* Python's round() of a / b (a >= 0, b > 0): to nearest, halves to even. *)
Round(a, b) ==
    LET q == a \div b
        r == a % b
    IN IF 2 * r < b THEN q
       ELSE IF 2 * r > b THEN q + 1
       ELSE IF q % 2 = 0 THEN q ELSE q + 1

(* Lines 35-36: K = max(int(round(N * target_fps / orig_fps)), 1). *)
FramesWanted(N, orig_fps, target_fps) ==
    Max(Round(N * target_fps, orig_fps), 1)

(* Lines 38-40: the positions floor(k * ratio), k < K, that lie in 0..N-1, *)
(* without duplicates, in increasing order.                                *)
KeepPositions(N, K, orig_fps, target_fps) ==
    SortedNumbers({ p \in { (k * orig_fps) \div target_fps : k \in 0..(K - 1) } :
                      p >= 0 /\ p < N })

(* The content of the file numbered n. *)
ContentOf(dir, n) == (CHOOSE f \in dir : f.num = n).content

(* os.rename on POSIX: the file takes the new name and replaces a file     *)
(* that has it.                                                            *)
Renamed(dir, old, new) ==
    { f \in dir : f.num # old /\ f.num # new }
        \cup {[num |-> new, content |-> ContentOf(dir, old)]}

(* Lines 13-40: scan, sort, sanity checks and the choice of survivors. *)
ScanAndSelect ==
    /\ resample.pc = "start"
    /\ LET entries == SortedNumbers({ f.num : f \in resample.folder })
           N == Len(entries)
           K == FramesWanted(N, resample.orig_fps, resample.target_fps)
       IN IF entries = <<>>
          THEN resample' = [resample EXCEPT !.pc = "exited", !.exit_code = 1]
          ELSE IF resample.target_fps = resample.orig_fps
          THEN resample' = [resample EXCEPT !.pc = "encode", !.entries = entries]
          ELSE IF resample.target_fps > resample.orig_fps
          THEN resample' = [resample EXCEPT !.pc = "exited", !.exit_code = 1]
          ELSE resample' = [resample EXCEPT !.pc = "delete",
                  !.entries = entries, !.K = K,
                  !.keep = KeepPositions(N, K, resample.orig_fps,
                                         resample.target_fps)]
    /\ UNCHANGED <<reencodeVars, seq>>

(* Lines 41-46: every file whose position is not kept is removed. *)
DeleteUnneeded ==
    /\ resample.pc = "delete"
    /\ LET kept == { resample.entries[resample.keep[k] + 1] :
                       k \in 1..Len(resample.keep) }
       IN resample' = [resample EXCEPT !.pc = "rename",
                          !.folder = { f \in resample.folder : f.num \in kept }]
    /\ UNCHANGED <<reencodeVars, seq>>

(* Lines 48-54: one iteration of the renaming loop.  On Windows os.rename  *)
(* raises when the new name exists, and the script ends there.             *)
RenameSurvivor ==
    /\ resample.pc = "rename"
    /\ resample.renamed < Len(resample.keep)
    /\ LET new_i == resample.renamed + 1
           old == resample.entries[resample.keep[new_i] + 1]
           taken == \E f \in resample.folder : f.num = new_i
       IN IF old = new_i
          THEN resample' = [resample EXCEPT !.renamed = new_i]
          ELSE IF taken /\ resample.platform = "win32"
          THEN resample' = [resample EXCEPT !.pc = "exited", !.exit_code = 1]
          ELSE resample' = [resample EXCEPT !.renamed = new_i,
                               !.folder = Renamed(resample.folder, old, new_i)]
    /\ UNCHANGED <<reencodeVars, seq>>

(* Lines 55-64: the last survivor copied until K frames are there. *)
DuplicateLast ==
    /\ resample.pc = "rename"
    /\ resample.renamed = Len(resample.keep)
    /\ LET current == Len(resample.keep)
       IN resample' = [resample EXCEPT !.pc = "encode",
             !.folder = resample.folder \cup
                { [num |-> n, content |-> ContentOf(resample.folder, current)] :
                     n \in (current + 1)..resample.K }]
    /\ UNCHANGED <<reencodeVars, seq>>

(* Lines 67-100: ffmpeg encodes the folder. *)
EncodeFolder ==
    /\ resample.pc = "encode"
    /\ \E ok \in BOOLEAN :
          resample' = [resample EXCEPT !.pc = "exited",
                                      !.exit_code = IF ok THEN 0 ELSE 1]
    /\ UNCHANGED <<reencodeVars, seq>>

(* A process that has just started: nothing planned, no child, flags clear. *)
RunStart ==
    /\ manifest = FALSE
    /\ segdir = TRUE
    /\ stop_requested_event = FALSE
    /\ force_stop_requested_event = FALSE
    /\ pc = "start"
    /\ calculated_segments_info = <<>>
    /\ completed_segment_paths = <<>>
    /\ resume_segment_idx = 0
    /\ i = 0
    /\ success = FALSE
    /\ exit_code = NotExited
    /\ outcome = "RUNNING"
    /\ sup = "idle"
    /\ process = NoProcess
    /\ orphans = 0
    /\ waited = 0
    /\ launched = <<>>
    /\ deleted = {}
    /\ stopAt = "none"
    /\ finalAtStop = NoFiles
    /\ completedAtStop = <<>>
    /\ abortedSeg = {}
    /\ failedSeg = {}
    /\ superseded = {}
    /\ part_items = {}

Init ==
    /\ config \in Configs(Inputs)
    /\ final \in InitialFinals(config.input)
    /\ part \in InitialParts
    /\ dest \in {"absent", "present"}
    /\ fs0 = final
    /\ dest0 = dest
    /\ seq = SeqIdle
    /\ resample = ResampleIdle
    /\ RunStart

fsVars == <<final, part, dest, manifest, segdir>>
flagVars == <<stop_requested_event, force_stop_requested_event, stopAt,
              finalAtStop, completedAtStop>>
planVars == <<config, calculated_segments_info, part_items>>
loopVars == <<completed_segment_paths, resume_segment_idx, i>>
supVars == <<sup, process, orphans, waited, success, abortedSeg>>
histVars == <<fs0, dest0, launched, deleted, failedSeg, superseded>>

(* sys.exit(code) after printing the terminal message. *)
Exit(code, what) ==
    /\ pc' = "exited"
    /\ exit_code' = code
    /\ outcome' = what

Continue(label) ==
    /\ pc' = label
    /\ UNCHANGED <<exit_code, outcome>>

(* The part of main_process the control thread is in. *)
Phase ==
    CASE pc \in {"start", "dest_guard", "orphan_cleanup"} -> "guards"
      [] pc = "resume_scan" -> "scan"
      [] pc \in {"encode_loop", "encode_segment", "after_encode"} -> "encode"
      [] pc = "in_ffmpeg" /\ process.kind = "segment" -> "encode"
      [] pc = "final_outcome" -> "outcome"
      [] pc \in {"concatenate", "concat_raised", "after_concat"} -> "concat"
      [] pc = "in_ffmpeg" /\ process.kind = "concat" -> "concat"
      [] OTHER -> "exited"

----
(* signal_handler: first Ctrl+C sets the graceful flag, the second the     *)
(* force flag, later ones change nothing.  It is installed for the whole   *)
(* of main_process and runs between any two steps of the control thread.   *)

(* Faulty variant: one signal sets both flags. *)
HandlerSetsBoth(stop, force) == <<TRUE, TRUE>>

(* Lines 56-63: the pair <<graceful, force>> after one more signal. *)
HandlerSets(stop, force) ==
    IF ~stop
    THEN <<TRUE, force>>
    ELSE IF ~force
    THEN <<stop, TRUE>>
    ELSE <<stop, force>>

signal_handler ==
    /\ pc # "exited"
    /\ LET flags == HandlerSets(stop_requested_event, force_stop_requested_event)
       IN /\ stop_requested_event' = flags[1]
          /\ force_stop_requested_event' = flags[2]
    /\ IF ~stop_requested_event
       THEN /\ stopAt' = Phase
            /\ finalAtStop' = final
            /\ completedAtStop' = completed_segment_paths
       ELSE UNCHANGED <<stopAt, finalAtStop, completedAtStop>>
    /\ UNCHANGED <<fsVars, planVars, loopVars, supVars, histVars, seq, resample, pc,
                   exit_code, outcome>>

----
(* main_process, before the encoding loop. *)

(* Lines 182-185: has_audio_stream is False when the probe finds no audio  *)
(* stream and also when get_stream_info returns None for a failed probe.   *)
has_audio_stream(probe) == probe = "present"

(* Faulty variant: any probed duration lets the run go on. *)
SourceNeverUnusable(total_duration) == FALSE

(* Line 465: get_file_duration returned -1.0 or a non-positive duration. *)
SourceUnusable(total_duration) == total_duration <= 0

(* Lines 454-468: staging dir created, source probed for audio and for its *)
(* duration.                                                               *)
ProbeSource ==
    /\ pc = "start"
    /\ segdir' = TRUE
    /\ IF SourceUnusable(config.input.total_duration)
       THEN Exit(1, "FATAL")
       ELSE Continue("dest_guard")
    /\ UNCHANGED <<final, part, dest, manifest, flagVars, planVars, loopVars,
                   supVars, histVars, seq,
                   resample>>

(* Lines 470-481: the destination-exists guard. *)
(* Faulty variant: an existing destination never ends the run. *)
DestinationNeverBlocks(d, overwrite) == FALSE

(* Lines 470 and 471: the destination exists and may not be overwritten. *)
DestinationBlocks(d, overwrite) == d # "absent" /\ ~overwrite

DestGuard ==
    /\ pc = "dest_guard"
    /\ IF DestinationBlocks(dest, config.overwrite_final_output)
       THEN UNCHANGED dest /\ Exit(0, "DEST_EXISTS")
       ELSE dest' = "absent" /\ Continue("orphan_cleanup")
    /\ UNCHANGED <<final, part, manifest, segdir, flagVars, planVars,
                   loopVars, supVars, histVars, seq,
                   resample>>

(* Faulty variant: only the first segment's .part file is looked for. *)
OrphanedPartOfFirst(parts) == { s \in {1} : parts[s].exists }

(* Lines 484-485: the files of the staging directory that the glob for     *)
(* the output extension plus ".part" matches.                              *)
OrphanedParts(parts) == { s \in SegIdx : parts[s].exists }

(* Lines 483-493: orphaned .part files removed, segments planned.  An      *)
(* unlink that raises ends the process with status 2 (lines 581-588).      *)
OrphanCleanupAndPlan ==
    /\ pc = "orphan_cleanup"
    /\ part_items' = OrphanedParts(part)
    /\ \E unlinked \in IF part_items' = {} THEN {TRUE} ELSE BOOLEAN :
          IF unlinked
          THEN /\ part' = [s \in SegIdx |->
                             IF s \in part_items' THEN NoFile ELSE part[s]]
               /\ calculated_segments_info' = Planned(config.input)
               /\ IF calculated_segments_info' = <<>>
                  THEN Exit(1, "FATAL")
                  ELSE Continue("resume_scan")
          ELSE /\ Exit(2, "UNEXPECTED_ERROR")
               /\ UNCHANGED <<part, calculated_segments_info>>
    /\ UNCHANGED <<final, dest, manifest, segdir, flagVars, config, loopVars,
                   supVars, histVars, seq,
                   resample>>

----
(* main_process, the resume scan (lines 495-521). *)

(* What the scan does with the final file f of a segment of the given     *)
(* expected duration: accept it, delete it, or find it missing.           *)
ScanVerdict(f, expected_seg_duration) ==
    IF f.exists
    THEN IF DurationAccepted(f.dur, expected_seg_duration)
         THEN "accept"
         ELSE "delete"
    ELSE "missing"

(* Faulty variant: the scan skips a missing file and continues. *)
ScanBreaksOnlyOnDelete(verdict) == verdict = "delete"

(* The scan breaks out of its loop on anything but an accepted file. *)
ScanBreaks(verdict) == verdict # "accept"

(* Faulty variant: the encoding loop starts over at the first segment. *)
LoopStartFromZero(resume_idx) == 0

(* Line 524: the encoding loop starts at the resume index. *)
LoopStart(resume_idx) == resume_idx

ResumeScanStep ==
    /\ pc = "resume_scan"
    /\ LET segment_number == i + 1
           seg_info == calculated_segments_info[segment_number]
           verdict == ScanVerdict(final[segment_number], seg_info.duration)
           done == \/ ScanBreaks(verdict)
                   \/ segment_number = Len(calculated_segments_info)
       IN /\ IF verdict = "accept"
             THEN /\ completed_segment_paths' =
                        Append(completed_segment_paths, segment_number)
                  /\ resume_segment_idx' = i + 1
             ELSE UNCHANGED <<completed_segment_paths, resume_segment_idx>>
          /\ IF verdict = "delete"
             THEN /\ final' = [final EXCEPT ![segment_number] = NoFile]
                  /\ deleted' = deleted \cup {segment_number}
             ELSE UNCHANGED <<final, deleted>>
          /\ IF done
             THEN i' = LoopStart(resume_segment_idx') /\ Continue("encode_loop")
             ELSE i' = i + 1 /\ Continue("resume_scan")
          /\ superseded' =
                { s \in SegIdx : /\ final'[s].exists
                                 /\ \/ s \in superseded
                                    \/ done /\ s > resume_segment_idx' }
    /\ part_items' = {}
    /\ UNCHANGED <<part, dest, manifest, segdir, flagVars, config,
                   calculated_segments_info, supVars,
                   fs0, dest0, launched, failedSeg, seq,
                   resample>>

----
(* main_process, the encoding loop (lines 523-551). *)

(* Lines 524-527: the for statement and the stop check at the loop head. *)
EncodeLoopHead ==
    /\ pc = "encode_loop"
    /\ IF i >= Len(calculated_segments_info) \/ stop_requested_event
       THEN Continue("final_outcome")
       ELSE Continue("encode_segment")
    /\ UNCHANGED <<fsVars, flagVars, planVars, loopVars, supVars, histVars, seq,
                   resample>>

(* subprocess.Popen of one backend command, and the daemon thread started  *)
(* on its merged output (lines 232-248).                                   *)
Spawned(kind, seg) ==
    [state |-> "running", status |-> "none", returncode |-> "None",
     stdin_closed |-> FALSE, forced |-> FALSE, kind |-> kind, seg |-> seg,
     audio |-> "none", filelist |-> <<>>, stages |-> <<>>, drain_threads |-> 1]

(* Lines 354-358 of encode_segment: audio is encoded to AAC when the       *)
(* source was found to have audio, and dropped (-an) otherwise.            *)
AudioOption(audio_present) == IF audio_present THEN "aac" ELSE "an"

(* Lines 529-539 and 221-248: the stale .part file is removed and ffmpeg   *)
(* is started on the .part path; a missing executable returns False.       *)
StartSegment ==
    /\ pc = "encode_segment"
    /\ part' = [part EXCEPT ![i + 1] = NoFile]
    /\ \E found \in BOOLEAN :
          IF found
          THEN /\ process' = [Spawned("segment", i + 1) EXCEPT !.audio =
                                 AudioOption(has_audio_stream(config.audio))]
               /\ sup' = "poll"
               /\ launched' = Append(launched, [kind |-> "segment", seg |-> i + 1])
               /\ superseded' = superseded \ {i + 1}
               /\ Continue("in_ffmpeg")
               /\ UNCHANGED success
          ELSE /\ success' = FALSE
               /\ Continue("after_encode")
               /\ UNCHANGED <<process, sup, launched, superseded>>
    /\ UNCHANGED <<final, dest, manifest, segdir, flagVars, planVars, loopVars,
                   orphans, waited, abortedSeg, fs0, dest0, deleted, failedSeg, seq,
                   resample>>

(* Faulty variant: a failed encode does not leave the loop. *)
NeverBreaks(ok) == FALSE

(* Line 541: if not success: break. *)
BreaksOnFailure(ok) == ~ok

(* Faulty variant: the loop tries the same segment again. *)
SameIndex(idx) == idx

(* Line 524: the for statement's next value of i. *)
NextIndex(idx) == idx + 1

(* Lines 541-551: break on failure; else shutil.move of .part to the       *)
(* final name, which may fail, and only then the append.                   *)
(* Faulty variant: a failed move is reported and the loop goes on. *)
MoveFailureIgnored(moved) == FALSE

(* Lines 549-551: an exception of shutil.move leaves the loop. *)
MoveBreaks(moved) == ~moved

PromoteSegment ==
    /\ pc = "after_encode"
    /\ IF BreaksOnFailure(success)
       THEN /\ failedSeg' = failedSeg \cup {i + 1}
            /\ Continue("final_outcome")
            /\ UNCHANGED <<final, part, loopVars>>
       ELSE \E can_move \in BOOLEAN :
               LET moved == can_move /\ part[i + 1].exists
               IN /\ failedSeg' = IF success /\ moved
                                  THEN failedSeg
                                  ELSE failedSeg \cup {i + 1}
                  /\ IF moved
                     THEN /\ final' = [final EXCEPT ![i + 1] = part[i + 1]]
                          /\ part' = [part EXCEPT ![i + 1] = NoFile]
                          /\ completed_segment_paths' =
                                Append(completed_segment_paths, i + 1)
                          /\ i' = NextIndex(i)
                          /\ UNCHANGED resume_segment_idx
                          /\ Continue("encode_loop")
                     ELSE IF MoveBreaks(moved)
                     THEN /\ Continue("final_outcome")
                          /\ UNCHANGED <<final, part, loopVars>>
                     ELSE /\ i' = NextIndex(i)
                          /\ Continue("encode_loop")
                          /\ UNCHANGED <<final, part, completed_segment_paths,
                                         resume_segment_idx>>
    /\ UNCHANGED <<dest, manifest, segdir, flagVars, planVars, supVars,
                   fs0, dest0, launched, deleted, superseded, seq,
                   resample>>

----
(* The backend process, a black box.  It ends on its own with either exit  *)
(* status; ended after the quit token reached it, a zero status may come   *)
(* with a cut-short file.                                                  *)

SegmentOutput(seg, status, interrupted) ==
    LET e == calculated_segments_info[seg].duration
    IN IF status = "zero"
       THEN IF interrupted
            THEN { File(d, TRUE) : d \in TruncatedChoices(e) \cup {e} }
            ELSE { File(e, TRUE) }
       ELSE { File(0, TRUE) }

ConcatOutput(status, interrupted) ==
    IF status = "zero"
    THEN IF interrupted THEN {"complete", "truncated"} ELSE {"complete"}
    ELSE {dest, "partial"}

ProcessExits ==
    /\ process.state = "running"
    /\ \E status \in {"zero", "nonzero"} :
          /\ process' = [process EXCEPT !.state = "exited", !.status = status]
          /\ IF process.kind = "segment"
             THEN /\ \E f \in SegmentOutput(process.seg, status,
                                            process.stdin_closed) :
                        part' = [part EXCEPT ![process.seg] = f]
                  /\ UNCHANGED dest
             ELSE /\ dest' \in ConcatOutput(status, process.stdin_closed)
                  /\ UNCHANGED part
    /\ UNCHANGED <<final, manifest, segdir, flagVars, planVars, loopVars, sup,
                   orphans, waited, success, abortedSeg, histVars, seq, resample, pc,
                   exit_code, outcome>>

----
(* _monitor_ffmpeg_output (lines 210-218): the thread reads lines until    *)
(* the pipe is at end of file, which it is once the child has ended; its   *)
(* printing of a line is taken not to raise.                               *)

(* Faulty variant: the thread stops reading when stdin is closed. *)
EndOfOutputAtShutdown(p) == p.state = "exited" \/ p.stdin_closed

EndOfOutput(p) == p.state = "exited"

monitor_ffmpeg_output ==
    /\ process.drain_threads > 0
    /\ EndOfOutput(process)
    /\ process' = [process EXCEPT !.drain_threads = process.drain_threads - 1]
    /\ UNCHANGED <<fsVars, flagVars, planVars, loopVars, sup, orphans, waited,
                   success, abortedSeg, histVars, seq, resample, pc, exit_code, outcome>>

----
(* run_ffmpeg_command (lines 221-298), after Popen. *)

(* Popen.poll()/wait() reaping an ended child: returncode becomes its status. *)
Reaped(p) == [p EXCEPT !.returncode = p.status]

(* Faulty variant: kill() does nothing. *)
NotKilled(p) == p

(* Popen.kill(): send_signal polls first and signals only a live child;    *)
(* SIGKILL ends it, and nothing reaps it before the supervisor returns.    *)
Killed(p) ==
    IF p.state = "exited"
    THEN Reaped(p)
    ELSE [p EXCEPT !.state = "exited", !.status = "nonzero"]

(* What a killed child leaves of the file it was writing. *)
KillLeaves(p) ==
    /\ IF p.state = "running" /\ p.kind = "segment"
       THEN part' = [part EXCEPT ![p.seg] = File(0, TRUE)]
       ELSE UNCHANGED part
    /\ IF p.state = "running" /\ p.kind = "concat"
       THEN dest' = "partial"
       ELSE UNCHANGED dest

(* Segments whose live child a stop request reached. *)
Aborting(p) ==
    IF p.state = "running" /\ p.kind = "segment"
    THEN abortedSeg \cup {p.seg}
    ELSE abortedSeg

(* Line 250: while process.poll() is None. *)
SupPoll ==
    /\ pc = "in_ffmpeg"
    /\ sup = "poll"
    /\ IF process.state = "exited"
       THEN process' = Reaped(process) /\ sup' = "join"
       ELSE UNCHANGED process /\ sup' = "flags"
    /\ UNCHANGED <<fsVars, flagVars, planVars, loopVars, orphans, waited,
                   success, abortedSeg, histVars, seq, resample, pc, exit_code, outcome>>

(* Faulty variant: terminate is sent before interrupt. *)
StageAfterSwapped(stage) ==
    CASE stage = "wait_q" -> [signal |-> "terminate", sup |-> "wait_term"]
      [] stage = "wait_term" -> [signal |-> "interrupt", sup |-> "wait_sig"]
      [] OTHER -> [signal |-> "kill", sup |-> "join"]

(* Lines 265-282: what follows a stage of the ladder whose wait timed out  *)
(* (or whose quit token could not be written): the signal sent and the     *)
(* wait entered next.                                                      *)
StageAfter(stage) ==
    CASE stage = "wait_q" -> [signal |-> "interrupt", sup |-> "wait_sig"]
      [] stage = "wait_sig" -> [signal |-> "terminate", sup |-> "wait_term"]
      [] OTHER -> [signal |-> "kill", sup |-> "join"]

(* Lines 251-284: force stop kills and breaks; graceful stop writes the    *)
(* quit token, closes stdin and waits, or escalates at once when the       *)
(* write raises; otherwise sleep and poll again.                           *)
SupFlags ==
    /\ pc = "in_ffmpeg"
    /\ sup = "flags"
    /\ IF force_stop_requested_event
       THEN /\ process' = [Killed(process) EXCEPT !.forced = TRUE,
                              !.stages = Append(process.stages, "kill")]
            /\ KillLeaves(process)
            /\ abortedSeg' = Aborting(process)
            /\ sup' = "join"
       ELSE IF stop_requested_event
       THEN /\ abortedSeg' = Aborting(process)
            /\ UNCHANGED <<part, dest>>
            /\ \E wrote \in BOOLEAN :
                  LET tried == [process EXCEPT
                                   !.stages = Append(process.stages, "quit")]
                  IN IF wrote
                     THEN /\ process' = [tried EXCEPT !.stdin_closed = TRUE]
                          /\ sup' = "wait_q"
                     ELSE IF process.state = "exited"
                     THEN /\ process' = Reaped(tried)
                          /\ sup' = "join"
                     ELSE /\ process' = [tried EXCEPT !.stages =
                                   Append(tried.stages, StageAfter("wait_q").signal)]
                          /\ sup' = StageAfter("wait_q").sup
       ELSE /\ sup' = "poll"
            /\ UNCHANGED <<process, abortedSeg, part, dest>>
    /\ UNCHANGED <<final, manifest, segdir, flagVars, planVars, loopVars,
                   orphans, waited, success, histVars, seq, resample, pc, exit_code, outcome>>

(* process.wait(timeout=...) returning because the child has ended. *)
SupWaitReturns ==
    /\ pc = "in_ffmpeg"
    /\ sup \in {"wait_q", "wait_sig", "wait_term"}
    /\ process.state = "exited"
    /\ process' = Reaped(process)
    /\ sup' = "join"
    /\ UNCHANGED <<fsVars, flagVars, planVars, loopVars, orphans, waited,
                   success, abortedSeg, histVars, seq, resample, pc, exit_code, outcome>>

(* process.wait(timeout=...) timing out on a live child: the next stage    *)
(* of the ladder (interrupt, terminate, kill).                             *)
(* Faulty variant: every stage waits as long as the first. *)
StageTimeoutAllQ(stage) == FFMPEG_SHUTDOWN_TIMEOUT_Q

(* Lines 264, 273 and 278: the timeout of each wait of the ladder. *)
StageTimeout(stage) ==
    CASE stage = "wait_q" -> FFMPEG_SHUTDOWN_TIMEOUT_Q
      [] stage = "wait_sig" -> FFMPEG_SHUTDOWN_TIMEOUT_SIG
      [] OTHER -> FFMPEG_SHUTDOWN_TIMEOUT_TERM

SupWaitTimeout ==
    /\ pc = "in_ffmpeg"
    /\ sup \in {"wait_q", "wait_sig", "wait_term"}
    /\ process.state = "running"
    /\ waited' = waited + StageTimeout(sup)
    /\ sup' = StageAfter(sup).sup
    /\ LET signalled == [process EXCEPT !.stages =
                            Append(process.stages, StageAfter(sup).signal)]
       IN IF StageAfter(sup).signal = "kill"
          THEN /\ process' = Killed(signalled)
               /\ KillLeaves(process)
          ELSE /\ process' = signalled
               /\ UNCHANGED <<part, dest>>
    /\ UNCHANGED <<final, manifest, segdir, flagVars, planVars, loopVars,
                   orphans, success, abortedSeg, histVars, seq, resample, pc, exit_code,
                   outcome>>

(* Faulty variant: anything but a non-zero status counts as success. *)
ReturnsTrueUnlessNonzero(p) == p.returncode # "nonzero"

(* Line 289: the value returned. *)
ReturnValue(p) == p.returncode = "zero"

(* Lines 286-289: join the drain thread, for 2 s at most, and return. *)
SupReturn ==
    /\ pc = "in_ffmpeg"
    /\ sup = "join"
    /\ success' = ReturnValue(process)
    /\ orphans' = orphans + (IF process.state = "running" THEN 1 ELSE 0)
    /\ process' = NoProcess
    /\ sup' = "idle"
    /\ waited' = 0
    /\ Continue(IF process.kind = "segment" THEN "after_encode" ELSE "after_concat")
    /\ UNCHANGED <<fsVars, flagVars, planVars, loopVars, abortedSeg, histVars, seq,
                   resample>>

(* Lines 294-298: any other exception raised while the child is supervised *)
(* (the drain thread cannot be started, a signal cannot be sent, ...): a    *)
(* child still alive is killed and False is returned.                      *)
SupException ==
    /\ pc = "in_ffmpeg"
    /\ sup \in {"poll", "flags", "wait_q", "wait_sig", "wait_term", "join"}
    /\ KillLeaves(process)
    /\ success' = FALSE
    /\ orphans' = orphans + (IF Killed(process).state = "running" THEN 1 ELSE 0)
    /\ process' = NoProcess
    /\ sup' = "idle"
    /\ waited' = 0
    /\ Continue(IF process.kind = "segment" THEN "after_encode" ELSE "after_concat")
    /\ UNCHANGED <<final, manifest, segdir, flagVars, planVars, loopVars,
                   abortedSeg, histVars, seq,
                   resample>>

----
(* main_process, the final outcome (lines 553-577). *)

(* Faulty variant: any completed segment is enough to concatenate. *)
SomeSegmentCompleted == Len(completed_segment_paths) > 0

(* Line 559. *)
AllSegmentsCompleted ==
    Len(completed_segment_paths) = Len(calculated_segments_info)

(* Faulty variant: the final outcome does not look at the stop flag. *)
StopIgnored == FALSE

(* Line 554. *)
StoppedByUser == stop_requested_event

FinalOutcome ==
    /\ pc = "final_outcome"
    /\ IF StoppedByUser
       THEN Exit(0, "STOPPED_BY_USER")
       ELSE IF AllSegmentsCompleted
       THEN Continue("concatenate")
       ELSE Exit(1, "INCOMPLETE_FAILURE")
    /\ UNCHANGED <<fsVars, flagVars, planVars, loopVars, supVars, histVars, seq,
                   resample>>

(* Faulty variant: the manifest lists the segments last first. *)
ManifestLinesReversed(segment_files) ==
    [k \in 1..Len(segment_files) |->
        [directive |-> "file", path |-> segment_files[Len(segment_files) + 1 - k]]]

(* Lines 373-381: one "file <path>" line per segment file, in list order. *)
ManifestLines(segment_files) ==
    [k \in 1..Len(segment_files) |->
        [directive |-> "file", path |-> segment_files[k]]]

(* concatenate_segments, lines 365-392: the manifest is written and ffmpeg *)
(* is started in concat mode on the destination, reading the manifest.     *)
(* Writing the manifest may raise, with the file created or not.           *)
StartConcat ==
    /\ pc = "concatenate"
    /\ IF completed_segment_paths = <<>>
       THEN /\ success' = FALSE
            /\ Continue("after_concat")
            /\ UNCHANGED <<manifest, process, sup, launched>>
       ELSE \E written \in BOOLEAN :
            IF ~written
            THEN /\ manifest' \in BOOLEAN
                 /\ Continue("concat_raised")
                 /\ UNCHANGED <<success, process, sup, launched>>
            ELSE
            /\ manifest' = TRUE
            /\ \E found \in BOOLEAN :
                  IF found
                  THEN /\ process' = [Spawned("concat", 0) EXCEPT !.filelist =
                                         ManifestLines(completed_segment_paths)]
                       /\ sup' = "poll"
                       /\ launched' = Append(launched, [kind |-> "concat", seg |-> 0])
                       /\ Continue("in_ffmpeg")
                       /\ UNCHANGED success
                  ELSE /\ success' = FALSE
                       /\ Continue("after_concat")
                       /\ UNCHANGED <<process, sup, launched>>
    /\ UNCHANGED <<final, part, dest, segdir, flagVars, planVars, loopVars,
                   orphans, waited, abortedSeg, fs0, dest0, deleted, failedSeg,
                   superseded, seq,
                   resample>>

(* Lines 393-398 and 562-573: the manifest is removed; on success the      *)
(* staging directory is removed unless --keep-segments.                    *)
(* Faulty variant: the staging directory is removed whatever happened. *)
CleansUpAlways(concat_success, keep_segments) == TRUE

(* Lines 562 and 564: cleanup after a successful concatenation only, and   *)
(* only without --keep-segments.                                           *)
CleansUp(concat_success, keep_segments) == concat_success /\ ~keep_segments

(* Faulty variant: the manifest is removed after a successful join only. *)
KeptAfterFailure(exists, concat_success) == exists /\ ~concat_success

(* Lines 393-396, the finally clause: the manifest still exists afterwards *)
(* in no case (its removal is taken to succeed).                           *)
ManifestAfterFinally(exists, concat_success) == FALSE

(* Lines 372-398 and 581-588: an exception of the manifest's writing       *)
(* passes the finally clause and ends the process with status 2.           *)
ConcatRaised ==
    /\ pc = "concat_raised"
    /\ manifest' = ManifestAfterFinally(manifest, FALSE)
    /\ Exit(2, "UNEXPECTED_ERROR")
    /\ UNCHANGED <<final, part, dest, segdir, flagVars, planVars, loopVars,
                   supVars, histVars, seq,
                   resample>>

(* Line 567: shutil.rmtree(segments_dir) removes everything below the      *)
(* staging directory, the destination too when it lies there.              *)
RmtreeLeaves(d, segments_dir) ==
    IF segments_dir = "holds_destination" THEN "absent" ELSE d

FinishConcat ==
    /\ pc = "after_concat"
    /\ manifest' = ManifestAfterFinally(manifest, success)
    /\ IF CleansUp(success, config.keep_segments)
       THEN /\ final' = NoFiles
            /\ part' = NoFiles
            /\ segdir' = FALSE
            /\ dest' = RmtreeLeaves(dest, config.segments_dir)
            /\ deleted' = deleted \cup { s \in SegIdx : final[s].exists }
            /\ superseded' = {}
       ELSE UNCHANGED <<final, part, segdir, dest, deleted, superseded>>
    /\ IF success
       THEN Exit(0, "DONE")
       ELSE Exit(1, "INCOMPLETE_FAILURE")
    /\ UNCHANGED <<flagVars, planVars, loopVars, supVars, fs0, dest0,
                   launched, failedSeg, seq,
                   resample>>

----
(* The operator runs the same command again: a new process, with the       *)
(* files the last run left.                                                *)

Old(files) == [s \in SegIdx |-> [files[s] EXCEPT !.new = FALSE]]

Rerun ==
    /\ pc = "exited"
    /\ final' = Old(final)
    /\ part' = Old(part)
    /\ fs0' = Old(final)
    /\ dest0' = dest
    /\ stop_requested_event' = FALSE
    /\ force_stop_requested_event' = FALSE
    /\ pc' = "start"
    /\ calculated_segments_info' = <<>>
    /\ completed_segment_paths' = <<>>
    /\ resume_segment_idx' = 0
    /\ i' = 0
    /\ success' = FALSE
    /\ exit_code' = NotExited
    /\ outcome' = "RUNNING"
    /\ launched' = <<>>
    /\ deleted' = {}
    /\ stopAt' = "none"
    /\ finalAtStop' = NoFiles
    /\ completedAtStop' = <<>>
    /\ abortedSeg' = {}
    /\ failedSeg' = {}
    /\ part_items' = {}
    /\ UNCHANGED <<config, dest, manifest, segdir, sup, process, orphans,
                   waited, superseded, seq,
                   resample>>

Next ==
    \/ signal_handler
    \/ ProbeSource
    \/ DestGuard
    \/ OrphanCleanupAndPlan
    \/ ResumeScanStep
    \/ EncodeLoopHead
    \/ StartSegment
    \/ PromoteSegment
    \/ ProcessExits
    \/ monitor_ffmpeg_output
    \/ SupPoll
    \/ SupFlags
    \/ SupWaitReturns
    \/ SupWaitTimeout
    \/ SupReturn
    \/ SupException
    \/ FinalOutcome
    \/ StartConcat
    \/ ConcatRaised
    \/ FinishConcat
    \/ Rerun

Spec == Init /\ [][Next]_vars

(* main_process up to the planning of the segments, for every source       *)
(* duration and segment length of the ranges above and for those of        *)
(* Inputs, on an empty staging directory.                                  *)
PlanInputs ==
    Inputs \cup [total_duration : 1..MaxDuration,
                 segment_length : 1..MaxSegmentLength]

PlanInit ==
    /\ config \in [input : PlanInputs, audio : {"present"},
                    segments_dir : {"default"},
                    overwrite_final_output : {FALSE}, keep_segments : {FALSE}]
    /\ final = NoFiles
    /\ part = NoFiles
    /\ dest = "absent"
    /\ fs0 = final
    /\ dest0 = dest
    /\ seq = SeqIdle
    /\ resample = ResampleIdle
    /\ RunStart

PlanNext ==
    \/ ProbeSource
    \/ DestGuard
    \/ OrphanCleanupAndPlan

PlanSpec == PlanInit /\ [][PlanNext]_vars

(* Runs of a one-segment source, with time passing: a process.wait with a  *)
(* timeout returns or times out, and the join of the drain thread ends.    *)
LadderInit ==
    /\ Init
    /\ config.input = [total_duration |-> 1005, segment_length |-> 1]

LadderSpec ==
    /\ LadderInit
    /\ [][Next]_vars
    /\ WF_vars(SupWaitReturns)
    /\ WF_vars(SupWaitTimeout)
    /\ WF_vars(SupReturn)

(* prepare_sequence.py run on every input directory and threshold of the   *)
(* ranges above; reencode.py is not running.                               *)
SeqInit ==
    /\ config = [input |-> [total_duration |-> 1005, segment_length |-> 1],
                 audio |-> "present", segments_dir |-> "default",
                 overwrite_final_output |-> FALSE,
                 keep_segments |-> FALSE]
    /\ final = NoFiles
    /\ part = NoFiles
    /\ dest = "absent"
    /\ fs0 = final
    /\ dest0 = dest
    /\ RunStart
    /\ resample = ResampleIdle
    /\ \E listing \in Listings, thresh \in Thresholds :
          seq = [SeqIdle EXCEPT !.pc = "start", !.listing = listing,
                                !.thresh = thresh]

(* resample_and_encode.py run on folders of 1..MaxFrames frames numbered   *)
(* from 0..MaxStart, for every pair of frame rates above.                  *)
ResampleInit ==
    /\ config = [input |-> [total_duration |-> 1005, segment_length |-> 1],
                 audio |-> "present", segments_dir |-> "default",
                 overwrite_final_output |-> FALSE, keep_segments |-> FALSE]
    /\ final = NoFiles
    /\ part = NoFiles
    /\ dest = "absent"
    /\ fs0 = final
    /\ dest0 = dest
    /\ RunStart
    /\ seq = SeqIdle
    /\ \E n \in 0..MaxFrames, start \in 0..MaxStart, fps \in FrameRates,
          platform \in {"posix", "win32"} :
          resample = [ResampleIdle EXCEPT !.pc = "start",
                         !.platform = platform,
                         !.folder = FramesFrom(start, n),
                         !.orig_fps = fps[1], !.target_fps = fps[2]]

ResampleNext ==
    \/ ScanAndSelect
    \/ DeleteUnneeded
    \/ RenameSurvivor
    \/ DuplicateLast
    \/ EncodeFolder

ResampleSpec == ResampleInit /\ [][ResampleNext]_vars

SeqNext ==
    \/ GatherFrames
    \/ CopyFrame
    \/ ReportTotal

SeqSpec == SeqInit /\ [][SeqNext]_vars

----
(* Vocabulary of the properties below. *)

NumPlanned == Len(calculated_segments_info)
Expected(s) == calculated_segments_info[s].duration

(* The scan has started (the plan exists) / has finished. *)
Scanning == pc = "resume_scan"
AfterScan == calculated_segments_info # <<>> /\ ~Scanning

(* Segment files the scan has looked at so far. *)
Examined ==
    IF Scanning THEN 1..i ELSE 1..Min(resume_segment_idx + 1, NumPlanned)

(* A file of the staging directory as the run found it passes the check. *)
ValidAtStart(s) ==
    fs0[s].exists /\ DurationAccepted(fs0[s].dur, Expected(s))

(* Length of the longest leading run of valid artifacts. *)
ValidPrefixLen ==
    CHOOSE k \in 0..NumPlanned :
        /\ \A s \in 1..k : ValidAtStart(s)
        /\ k = NumPlanned \/ ~ValidAtStart(k + 1)

SegmentsLaunched ==
    { launched[k].seg : k \in { j \in 1..Len(launched) : launched[j].kind = "segment" } }

ConcatLaunched == \E k \in 1..Len(launched) : launched[k].kind = "concat"

(* Backend processes alive. *)
AliveCount == orphans + (IF process.state = "running" THEN 1 ELSE 0)

----
(* C1: the Concatenator runs only when the number of segments counted      *)
(* complete equals the number planned and every planned segment's final    *)
(* artifact is on disk; never after a segment of this run failed to be     *)
(* promoted.  manifest is TRUE exactly while concatenate_segments runs.    *)
C1_ConcatOnlyWhenAllComplete ==
    (manifest \/ pc = "concatenate") =>
        /\ Len(completed_segment_paths) = NumPlanned
        /\ \A s \in 1..NumPlanned :
              /\ final[s].exists
              /\ \E k \in 1..Len(completed_segment_paths) :
                    completed_segment_paths[k] = s
        /\ \A s \in SegmentsLaunched : final[s].new

C1_Witness ==
    /\ manifest
    /\ process.kind = "concat"
    /\ process.state = "running"
    /\ resume_segment_idx = 1
    /\ Len(launched) = NumPlanned

(* C3: the resume index is the length of the longest leading run of final  *)
(* artifacts that exist and pass the duration check; the valid prefix is   *)
(* segments 1..resume index; the scan touches nothing past the first gap   *)
(* or mismatch.                                                            *)
C3_ResumeIndexIsValidPrefix ==
    AfterScan =>
        /\ resume_segment_idx = ValidPrefixLen
        /\ Len(completed_segment_paths) >= resume_segment_idx
        /\ \A k \in 1..resume_segment_idx : completed_segment_paths[k] = k
        /\ (pc = "encode_loop" /\ launched = <<>>) =>
              /\ i = resume_segment_idx
              /\ \A s \in SegIdx :
                    s # resume_segment_idx + 1 => final[s] = fs0[s]

C3_Witness ==
    /\ pc = "encode_loop"
    /\ launched = <<>>
    /\ NumPlanned = 3
    /\ resume_segment_idx = 1
    /\ ~fs0[2].exists
    /\ ValidAtStart(3)
    /\ final[3] = fs0[3]

(* The tolerance as the claim words it: |a - e| < max(0.1 s, 0.02 e). *)
ClaimedWithinTolerance(a, e) == 50 * Abs(a - e) < Max(5000, e)

(* C4 as claimed: an examined existing artifact is accepted into the valid *)
(* prefix if and only if |a - e| < max(0.1, 0.02 e).                       *)
C4_AcceptedIffWithinTolerance ==
    calculated_segments_info # <<>> =>
        \A s \in Examined :
            fs0[s].exists =>
                (s <= resume_segment_idx
                    <=> ClaimedWithinTolerance(fs0[s].dur, Expected(s)))

(* C4 amended: accepted if and only if the probed duration is positive and *)
(* |a - e| < max(0.1, 0.02 e); a rejected artifact is the one deleted.     *)
C4_AcceptedIffPositiveAndWithinTolerance ==
    calculated_segments_info # <<>> =>
        \A s \in Examined :
            fs0[s].exists =>
                /\ s <= resume_segment_idx
                      <=> /\ fs0[s].dur > 0
                          /\ ClaimedWithinTolerance(fs0[s].dur, Expected(s))
                /\ s > resume_segment_idx => s \in deleted

(* An artifact one millisecond inside the tolerance was accepted and one   *)
(* exactly on it was rejected.                                             *)
C4_Witness ==
    /\ AfterScan
    /\ resume_segment_idx = 1
    /\ fs0[1].exists
    /\ Abs(fs0[1].dur - Expected(1)) = TOLERANCE_FLOOR_MS - 1
    /\ fs0[2].exists
    /\ Abs(fs0[2].dur - Expected(2)) = TOLERANCE_FLOOR_MS
    /\ 2 \in deleted

(* Final artifacts 1..K were valid at the start and K+1 was there with an  *)
(* out-of-tolerance duration.                                              *)
CorruptAfter(K) ==
    /\ calculated_segments_info # <<>>
    /\ K < NumPlanned
    /\ \A s \in 1..K : ValidAtStart(s)
    /\ fs0[K + 1].exists
    /\ ~ValidAtStart(K + 1)

(* The run launched the backend for exactly the segments K+1..N, in        *)
(* order, and then for the concatenation.                                  *)
LaunchedExactlyFrom(K) ==
    /\ Len(launched) = NumPlanned - K + 1
    /\ \A k \in 1..(NumPlanned - K) :
          launched[k] = [kind |-> "segment", seg |-> K + k]
    /\ launched[Len(launched)].kind = "concat"

(* A run that ended DONE with no stop requested: every backend invocation  *)
(* succeeded.                                                              *)
DoneUncancelled ==
    pc = "exited" /\ outcome = "DONE" /\ ~stop_requested_event

C5_CountedCompleteHaveFinal ==
    pc # "exited" =>
        \A k \in (resume_segment_idx + 1)..Len(completed_segment_paths) :
            LET s == completed_segment_paths[k]
            IN /\ final[s].exists
               /\ final[s].new
               /\ ~part[s].exists
               /\ s \in SegmentsLaunched

C5_FinalOnlyByRename ==
    pc # "exited" =>
        /\ \A s \in SegIdx :
              (final'[s] # final[s] /\ final'[s].exists) =>
                  /\ pc = "after_encode"
                  /\ success
                  /\ s = i + 1
                  /\ part[s].exists
                  /\ final'[s] = part[s]
                  /\ ~part'[s].exists
                  /\ completed_segment_paths' = Append(completed_segment_paths, s)
        /\ (completed_segment_paths' # completed_segment_paths /\ ~Scanning) =>
              /\ pc = "after_encode"
              /\ success
              /\ part[i + 1].exists
              /\ final'[i + 1] = part[i + 1]

C5_PartialNeverValid ==
    [](C5_CountedCompleteHaveFinal) /\ [][C5_FinalOnlyByRename]_vars

C5_Witness ==
    /\ pc = "encode_loop"
    /\ Len(completed_segment_paths) = resume_segment_idx + 2
    /\ final[i].new
    /\ fs0[i].exists

(* C6: the backend is invoked for segments in strictly increasing order    *)
(* (each the successor of the one before, the concatenation last), at most *)
(* one backend process is alive at any time and only inside the            *)
(* supervisor, and an invocation starts only after every earlier           *)
(* segment's invocation returned and its artifact was promoted.            *)
C6_SerializedIncreasingOrder ==
    /\ AliveCount <= 1
    /\ process.state = "running" => pc = "in_ffmpeg"
    /\ \A k \in 1..Len(launched) :
          /\ launched[k].kind = "segment" => launched[k].seg = resume_segment_idx + k
          /\ launched[k].kind = "concat" => k = Len(launched)
          /\ k > 1 =>
                /\ launched[k - 1].kind = "segment"
                /\ launched[k - 1].seg < launched[k].seg \/ launched[k].kind = "concat"
                /\ pc # "exited" =>
                      /\ final[launched[k - 1].seg].new
                      /\ completed_segment_paths[launched[k - 1].seg] = launched[k - 1].seg

C6_Witness ==
    /\ Len(launched) = 3
    /\ process.state = "running"
    /\ process.kind = "segment"
    /\ process.seg = 3
    /\ resume_segment_idx = 0

(* C7: in a run in which the graceful flag was set during the resume scan, *)
(* the encoding loop or the concatenation, every final artifact counted    *)
(* complete at that moment is still there, unchanged, when the run exits.  *)
C7_StopKeepsCompletedArtifacts ==
    (pc = "exited" /\ stopAt \in {"scan", "encode", "concat"}) =>
        \A k \in 1..Len(completedAtStop) :
            final[completedAtStop[k]] = finalAtStop[completedAtStop[k]]

(* C8: a segment whose backend process a stop request shut down is not     *)
(* promoted to a final artifact in this run; it stays a .part file.        *)
C8_AbortedSegmentNotPromoted ==
    \A s \in abortedSeg :
        /\ ~final[s].new
        /\ pc = "exited" => part[s].exists

(* C9: if the graceful flag is set while the encoding loop is in progress, *)
(* the run exits 0 as STOPPED_BY_USER, the Concatenator was not invoked,   *)
(* the staging directory and every segment counted complete are still      *)
(* there (the scan's one deletion apart, nothing was deleted).             *)
C9_StopInLoopExitsZero ==
    (pc = "exited" /\ stopAt = "encode") =>
        /\ exit_code = 0
        /\ outcome = "STOPPED_BY_USER"
        /\ ~ConcatLaunched
        /\ ~manifest
        /\ segdir
        /\ dest = "absent"
        /\ deleted \subseteq {resume_segment_idx + 1}
        /\ \A k \in 1..Len(completed_segment_paths) :
              final[completed_segment_paths[k]].exists

(* The flag was set in the loop, the in-flight segment still succeeded and *)
(* was promoted as the last one: all segments complete, and no             *)
(* concatenation.                                                          *)
C9_Witness ==
    /\ pc = "exited"
    /\ stopAt = "encode"
    /\ success
    /\ Len(completed_segment_paths) = NumPlanned
    /\ launched # <<>>

(* C10: a run past its pre-run guards in which the graceful flag is set    *)
(* when the process exits ends with exit code 0.                           *)
C10_StopRequestedExitsZero ==
    (pc = "exited" /\ stop_requested_event
        /\ outcome \notin {"FATAL", "DEST_EXISTS"}) => exit_code = 0

(* Segments counted complete are on disk: those of the valid prefix as the *)
(* run found them, the others as this run's rename put them.               *)
CompletedIntact ==
    \A k \in 1..Len(completed_segment_paths) :
        LET s == completed_segment_paths[k]
        IN /\ final[s].exists
           /\ IF k <= resume_segment_idx THEN final[s] = fs0[s] ELSE final[s].new

(* C11: after a segment failed (backend status non-zero, executable        *)
(* missing, or the move to the final name failed) the loop is over: no     *)
(* later segment is encoded, the failed one is launched at most once and   *)
(* not counted complete, the completed artifacts are intact, nothing is    *)
(* concatenated, no destination file exists, and with no stop requested    *)
(* the run exits with status 1.                                            *)
C11_SegmentFailureStopsTheRun ==
    \A s \in failedSeg :
        /\ failedSeg = {s}
        /\ pc \in {"final_outcome", "exited"}
        /\ \A k \in 1..Len(launched) :
              /\ launched[k].kind = "segment"
              /\ launched[k].seg <= s
              /\ launched[k].seg = s => k = Len(launched)
        /\ \A k \in 1..Len(completed_segment_paths) :
              completed_segment_paths[k] # s
        /\ CompletedIntact
        /\ ~manifest
        /\ dest = "absent"
        /\ (pc = "exited" /\ ~stop_requested_event) =>
              /\ exit_code = 1
              /\ outcome = "INCOMPLETE_FAILURE"

(* Segment 1 was encoded and promoted, the move of segment 2 failed after  *)
(* a successful encode, and the run exited 1 with one segment left.        *)
C11_Witness ==
    /\ pc = "exited"
    /\ failedSeg = {2}
    /\ NumPlanned = 3
    /\ success
    /\ part[2].exists
    /\ ~stop_requested_event
    /\ completed_segment_paths = <<1>>
    /\ final[1].new
    /\ exit_code = 1

(* C12: the cleanup removes the final artifacts only after the             *)
(* concatenation reported success and only without --keep-segments; after  *)
(* every other outcome the staging directory and all segments counted      *)
(* complete are still on disk.                                             *)
C12_CleanupOnlyAfterConcatSuccess ==
    pc = "exited" =>
        IF segdir
        THEN calculated_segments_info # <<>> => CompletedIntact
        ELSE /\ outcome = "DONE"
             /\ exit_code = 0
             /\ ~config.keep_segments
             /\ ConcatLaunched
             /\ success

(* A failed concatenation with --keep-segments unset: all three segments   *)
(* are still there.                                                        *)
C12_Witness ==
    /\ pc = "exited"
    /\ ConcatLaunched
    /\ ~success
    /\ ~config.keep_segments
    /\ ~stop_requested_event
    /\ exit_code = 1
    /\ NumPlanned = 3
    /\ \A s \in 1..3 : final[s].exists

(* In a run that found the destination file and may not overwrite it, no   *)
(* step launches a backend or changes a final or partial artifact.         *)
NoWorkStep ==
    (dest0 # "absent" /\ ~config.overwrite_final_output /\ pc # "exited") =>
        /\ final' = final
        /\ part' = part
        /\ launched' = launched
        /\ deleted' = deleted
        /\ process' = process

BlockedAtExit ==
    pc = "exited" /\ dest0 # "absent" /\ ~config.overwrite_final_output

C14_ForceStopKillsAtOnce ==
    [][(/\ pc = "in_ffmpeg"
        /\ force_stop_requested_event
        /\ process.state = "running"
        /\ sup \in {"flags", "wait_q", "wait_sig", "wait_term"}
        /\ sup' # sup)
          => (sup' \in {"join", "idle"} /\ process'.state # "running")]_vars

LadderWaits == {"wait_q", "wait_sig", "wait_term"}

LadderTotal ==
    FFMPEG_SHUTDOWN_TIMEOUT_Q + FFMPEG_SHUTDOWN_TIMEOUT_SIG
        + FFMPEG_SHUTDOWN_TIMEOUT_TERM

(* Seconds a supervisor in the ladder has waited plus the most its current *)
(* wait can still take never exceed the sum of the three timeouts.         *)
LadderTimeBounded ==
    /\ waited <= LadderTotal
    /\ sup \in LadderWaits => waited + StageTimeout(sup) <= LadderTotal
    /\ sup \in LadderWaits => process.state \in {"running", "exited"}

(* C15: once the graceful stop is acted on, the supervisor returns, after  *)
(* at most 10 + 8 + 5 seconds of waiting, whether or not the backend ever  *)
(* reacts.                                                                 *)
C15_LadderReturnsWithinTimeouts ==
    /\ []LadderTimeBounded
    /\ (sup \in LadderWaits) ~> (sup = "idle")

(* The backend ignored the quit token, the interrupt and the terminate     *)
(* signal and was killed after 23 seconds.                                 *)
C15_Witness ==
    /\ sup = "join"
    /\ waited = LadderTotal
    /\ process.returncode = "None"
    /\ process.state = "exited"
    /\ ~process.forced

(* The step by which run_ffmpeg_command returns without having started a   *)
(* child.                                                                  *)
LaunchFails ==
    /\ pc \in {"encode_segment", "concatenate"}
    /\ pc' \in {"after_encode", "after_concat"}

(* C16 as claimed: the supervisor reports success if and only if the       *)
(* backend's exit status is zero and the force-stop branch was not taken;  *)
(* a missing executable and an exception report failure.                   *)
C16_SuccessIffZeroAndNotForced ==
    [][/\ SupReturn =>
            (success' <=> (process.status = "zero" /\ ~process.forced))
       /\ SupException => ~success'
       /\ LaunchFails => ~success']_vars

(* C16 amended: the supervisor reports success if and only if the backend  *)
(* ended with exit status zero and no exception ended the supervision; the *)
(* force-stop branch reports failure only when its kill hit a live child.  *)
C16_SuccessIffExitedZero ==
    [][/\ SupReturn =>
            /\ success' <=> process.status = "zero"
            /\ process.forced =>
                  (success' <=> process.returncode = "zero")
       /\ SupException => ~success'
       /\ LaunchFails => ~success']_vars

(* The force-stop branch was taken on a child that had just ended with     *)
(* status zero: the supervisor is about to report success.                 *)
C16_Witness ==
    /\ sup = "join"
    /\ process.forced
    /\ process.status = "zero"
    /\ process.returncode = "zero"
    /\ process.kind = "segment"

(* C17: no child outlives its supervisor: when run_ffmpeg_command is about *)
(* to return the child has ended or has been sent SIGKILL, no child is     *)
(* left behind by a return or an exception, and outside the supervisor no  *)
(* child exists.                                                           *)
C17_NoOrphanedBackend ==
    /\ orphans = 0
    /\ sup = "join" => process.state = "exited"
    /\ pc # "in_ffmpeg" => process = NoProcess

(* A concatenation killed by the force-stop branch. *)
C17_Witness ==
    /\ sup = "join"
    /\ process.kind = "concat"
    /\ process.forced
    /\ process.returncode = "None"
    /\ process.state = "exited"

(* One step of a run, as far as the two flags go: neither is cleared, the  *)
(* graceful flag is set alone, the force flag is set only with the         *)
(* graceful flag already set.                                              *)
FlagStep ==
    /\ stop_requested_event => stop_requested_event'
    /\ force_stop_requested_event => force_stop_requested_event'
    /\ (~stop_requested_event /\ stop_requested_event') =>
          ~force_stop_requested_event'
    /\ (~force_stop_requested_event /\ force_stop_requested_event') =>
          stop_requested_event

(* C18: within a run the flags are never cleared, the first signal sets    *)
(* only the graceful flag, the second the force flag, later ones nothing,  *)
(* and force-stop set implies graceful-stop set.                           *)
C18_FlagsMonotonic ==
    /\ [](force_stop_requested_event => stop_requested_event)
    /\ [](stop_requested_event <=> stopAt # "none")
    /\ [][pc # "exited" => FlagStep]_vars

(* Both flags set, the second one while a segment was being encoded. *)
C18_Witness ==
    /\ stop_requested_event
    /\ force_stop_requested_event
    /\ stopAt = "encode"
    /\ pc = "in_ffmpeg"
    /\ sup = "poll"

(* The planner has run on a source of positive duration: the plan is in    *)
(* calculated_segments_info (empty when the run stopped for want of one).  *)
PlanMade ==
    /\ config.input.total_duration > 0
    /\ pc = "resume_scan" \/ (pc = "exited" /\ outcome = "FATAL")

PlanTotal == config.input.total_duration
PlanStep == config.input.segment_length * 1000

(* Contiguous, gapless, from 0, strictly increasing. *)
PlanContiguous ==
    LET segs == calculated_segments_info
    IN /\ segs # <<>>
       /\ segs[1].start = 0
       /\ \A k \in 1..(Len(segs) - 1) :
             /\ segs[k].end = segs[k + 1].start
             /\ segs[k].start < segs[k + 1].start
       /\ \A k \in 1..Len(segs) : segs[k].start < segs[k].end

(* C19 as claimed: for every positive duration and segment length the plan *)
(* is non-empty, contiguous and gapless from 0, strictly increasing, and   *)
(* its last segment ends at the total duration.                            *)
C19_PlanCoversWholeDuration ==
    PlanMade =>
        /\ PlanContiguous
        /\ calculated_segments_info[Len(calculated_segments_info)].end = PlanTotal

(* C19 amended: for a duration of at least 0.01 s the plan is non-empty,   *)
(* contiguous and gapless from 0 and strictly increasing; its last segment *)
(* ends at the total duration, or, when the remainder after the last whole *)
(* segment is shorter than 0.01 s, that remainder is dropped and the plan  *)
(* ends less than 0.01 s short; for a shorter duration the plan is empty.  *)
C19_PlanCoversDurationButTinyTail ==
    PlanMade =>
        IF PlanTotal < MIN_SEGMENT_MS
        THEN calculated_segments_info = <<>>
        ELSE LET last ==
                   calculated_segments_info[Len(calculated_segments_info)]
             IN /\ PlanContiguous
                /\ last.end <= PlanTotal
                /\ PlanTotal - last.end < MIN_SEGMENT_MS
                /\ last.end # PlanTotal => last.duration = PlanStep

(* A 2.005 s source in 1 s segments: two segments, 5 ms dropped. *)
C19_Witness ==
    /\ PlanMade
    /\ PlanTotal = 2005
    /\ PlanStep = 1000
    /\ Len(calculated_segments_info) = 2
    /\ calculated_segments_info[2].end = 2000

(* C20: segment k starts at (k-1) segment lengths and ends one segment     *)
(* length later or at the total duration, whichever is less; all but the   *)
(* last last exactly one segment length; none is shorter than 0.01 s and   *)
(* only a trailing piece shorter than that is left out; 12 s in 5 s        *)
(* segments gives [0,5), [5,10), [10,12).                                  *)
C20_PlanWalksInSteps ==
    PlanMade =>
        LET segs == calculated_segments_info
            N == Len(segs)
        IN /\ \A k \in 1..N :
                 /\ segs[k].start = (k - 1) * PlanStep
                 /\ segs[k].end = Min(k * PlanStep, PlanTotal)
                 /\ segs[k].duration = segs[k].end - segs[k].start
                 /\ segs[k].duration >= MIN_SEGMENT_MS
                 /\ k < N => segs[k].duration = PlanStep
           /\ PlanTotal - N * PlanStep < MIN_SEGMENT_MS
           /\ (PlanTotal = 12000 /\ PlanStep = 5000) =>
                 segs = << [start |-> 0, end |-> 5000, duration |-> 5000],
                           [start |-> 5000, end |-> 10000, duration |-> 5000],
                           [start |-> 10000, end |-> 12000, duration |-> 2000] >>

C20_Witness ==
    /\ PlanMade
    /\ PlanTotal = 12000
    /\ PlanStep = 5000
    /\ Len(calculated_segments_info) = 3
    /\ pc = "resume_scan"

----
(* The source's duration could not be determined, or is not positive. *)
SourceUndetermined == config.input.total_duration <= 0

(* No step of such a run touches an artifact, the destination or a child,  *)
(* or plans a segment.                                                     *)
UndeterminedStep ==
    SourceUndetermined =>
        /\ final' = final
        /\ part' = part
        /\ dest' = dest
        /\ process' = process
        /\ calculated_segments_info' = <<>>
        /\ launched' = <<>>

(* C21: a run whose source duration cannot be determined or is not        *)
(* positive exits with status 1 before any segment is planned or any       *)
(* backend process launched, and without creating or deleting any final    *)
(* or partial artifact or the destination.                                 *)
C21_UndeterminedSourceIsFatal ==
    /\ []((SourceUndetermined /\ pc = "exited") =>
            /\ exit_code = 1
            /\ outcome = "FATAL"
            /\ calculated_segments_info = <<>>
            /\ launched = <<>>
            /\ deleted = {}
            /\ final = fs0
            /\ dest = dest0)
    /\ [][UndeterminedStep]_vars

(* The probe failed with a final artifact, an orphaned .part file and an   *)
(* overwritable destination on disk; all three are still there at exit.    *)
C21_Witness ==
    /\ pc = "exited"
    /\ config.input.total_duration = 0 - 1000
    /\ config.overwrite_final_output
    /\ exit_code = 1
    /\ final[1].exists
    /\ part[1].exists
    /\ dest = "present"

----
(* C22 as claimed: a failed audio-presence probe is fatal, so no segment   *)
(* is ever encoded on the strength of it.  has_audio_stream turns a failed *)
(* probe into False and the run goes on to encode without audio.           *)
C22_AudioProbeErrorIsFatal ==
    config.audio = "error" =>
        /\ launched = <<>>
        /\ process.audio = "none"
        /\ pc = "exited" => exit_code = 1

----
----
(* C24 as claimed: an artifact found beyond the resume index of a scan is  *)
(* never counted complete, by that run or a later one, nor passed to the   *)
(* Concatenator, unless a backend invocation re-encoded its index after    *)
(* that scan.  A run stopped before it reaches such an index leaves the    *)
(* artifact where it is, and the next run's scan accepts it.               *)
C24_ArtifactsBeyondGapSuperseded ==
    \A k \in 1..Len(completed_segment_paths) :
        completed_segment_paths[k] \notin superseded

----
(* The input frames of prepare_sequence in the order it copies them. *)
SeqCopied == seq.valid

(* Output frames the k-th input frame (k > 1) contributes: one for a gap   *)
(* of at most the threshold, g for a larger gap g.                         *)
Contribution(k) ==
    LET g == SeqCopied[k].index - SeqCopied[k - 1].index
    IN IF g > seq.thresh THEN g ELSE 1

(* The output number the k-th input frame is copied to. *)
RECURSIVE OutputNumber(_)
OutputNumber(k) ==
    IF k = 1 THEN 1 ELSE OutputNumber(k - 1) + Contribution(k)

(* C25: prepare_sequence writes outputs 1..total without a gap, in         *)
(* increasing input-index order: the first input frame is output 1; a      *)
(* following frame with gap g <= threshold adds one output, and with gap   *)
(* g > threshold adds g outputs, g-1 copies of the previous frame and      *)
(* then the frame itself.                                                  *)
C25_SequenceGapFree ==
    (seq.pc = "exited" /\ seq.exit_code = 0) =>
        /\ { SeqCopied[k] : k \in 1..Len(SeqCopied) } =
              { fn \in seq.listing : fn.digits /\ fn.ext = ".png" }
        /\ \A j, k \in 1..Len(SeqCopied) :
              j < k => SeqCopied[j].index < SeqCopied[k].index
        /\ DOMAIN seq.outdir = 1..seq.total
        /\ seq.total = OutputNumber(Len(SeqCopied))
        /\ \A k \in 1..Len(SeqCopied) :
              seq.outdir[OutputNumber(k)] = SeqCopied[k]
        /\ \A k \in 2..Len(SeqCopied) :
              \A n \in (OutputNumber(k - 1) + 1)..(OutputNumber(k) - 1) :
                 seq.outdir[n] = SeqCopied[k - 1]

(* Frames 0, 1, 3 and 6 with threshold 2: the gaps 1 and 2 add one output  *)
(* each, the gap 3 adds two copies of frame 3 and frame 6.                 *)
C25_Witness ==
    /\ seq.pc = "exited"
    /\ seq.thresh = 2
    /\ { fn.index : fn \in { f \in seq.listing : IsValid(f) } } = {0, 1, 3, 6}
    /\ seq.total = 6
    /\ seq.outdir[3] = Frame(3)
    /\ seq.outdir[4] = Frame(3)
    /\ seq.outdir[5] = Frame(3)
    /\ seq.outdir[6] = Frame(6)

----
(* The stages of the shutdown ladder, in the order of the code. *)
LadderOrder == <<"quit", "interrupt", "terminate", "kill">>

(* A step in which the supervisor attempts one or two more stages on the   *)
(* child it supervises.                                                    *)
StageAttempted ==
    /\ pc = "in_ffmpeg"
    /\ process'.kind # "none"
    /\ Len(process'.stages) > Len(process.stages)

(* A stage is attempted only on a child the supervisor has not found       *)
(* ended; the first stage on a set graceful flag, a later one only after   *)
(* the wait of the stage before it timed out or, straight after the quit   *)
(* token, when that could not be written.                                  *)
LadderStep ==
    (StageAttempted /\ ~process'.forced) =>
        /\ process.returncode = "None"
        /\ stop_requested_event
        /\ IF process.stages = <<>>
           THEN /\ sup = "flags"
                /\ \/ Len(process'.stages) = 1
                   \/ /\ ~process'.stdin_closed
                      /\ process.state = "running"
           ELSE /\ sup \in {"wait_q", "wait_sig", "wait_term"}
                /\ process.state = "running"
                /\ Len(process'.stages) = Len(process.stages) + 1

(* C26: on a graceful stop the stages attempted are an initial part of     *)
(* quit token, interrupt, terminate, kill, in that order, so the quit      *)
(* token is written at most once; a later stage is attempted only after    *)
(* the stage before it timed out or failed, and none once the supervisor   *)
(* has found the child ended.                                              *)
C26_LadderStagesInOrder ==
    /\ [](~process.forced =>
            /\ Len(process.stages) <= Len(LadderOrder)
            /\ \A k \in 1..Len(process.stages) :
                  process.stages[k] = LadderOrder[k])
    /\ [][LadderStep]_vars

(* A segment encode that ignored the quit token, the interrupt and the     *)
(* terminate signal and was killed after 23 s.                             *)
C26_Witness ==
    /\ pc = "in_ffmpeg"
    /\ process.kind = "segment"
    /\ process.stages = LadderOrder
    /\ process.stdin_closed
    /\ sup = "join"
    /\ waited = 23

----
(* C27: when the resume scan begins, no .part file is left in the staging  *)
(* directory, whatever the earlier run left, and the cleanup that removed  *)
(* them has deleted no final artifact.                                     *)
C27_NoPartialWhenScanBegins ==
    /\ [](pc = "resume_scan" =>
            /\ part = NoFiles
            /\ i = 0 => (final = fs0 /\ deleted = {}))
    /\ [][pc = "orphan_cleanup" => (final' = final /\ deleted' = deleted)]_vars

(* The cleanup found and removed the .part file of segment 2; the scan is  *)
(* about to start on the final artifacts the earlier run left.             *)
C27_Witness ==
    /\ pc = "resume_scan"
    /\ i = 0
    /\ part_items = {2}
    /\ part = NoFiles
    /\ NumPlanned = 3
    /\ final[1].exists
    /\ final[3].exists
    /\ final = fs0

----
(* C28: as long as a backend process is alive, also while the supervisor   *)
(* sits in a wait of the shutdown ladder, exactly one thread drains its    *)
(* output, and never more than one; and the supervisor's join of that      *)
(* thread always ends, so the supervisor returns.                          *)
C28_OneDrainWhileAlive ==
    /\ [](process.drain_threads \in {0, 1})
    /\ [](process.state = "running" => process.drain_threads = 1)
    /\ (sup = "join" ~> sup = "idle")

(* The child has ignored the quit token and the interrupt; the supervisor  *)
(* waits for the terminate signal to work and the drain is still reading.  *)
C28_Witness ==
    /\ pc = "in_ffmpeg"
    /\ sup = "wait_term"
    /\ waited = 18
    /\ process.state = "running"
    /\ process.drain_threads = 1

----
(* C29: the segments counted complete are always 1..m in increasing order, *)
(* without gap or duplicate: first the prefix the scan accepted, then the  *)
(* segments promoted by this run; so the manifest given to the join lists  *)
(* the segments 1..N in time order.                                        *)
C29_CompletedIsPrefixInOrder ==
    /\ \A k \in 1..Len(completed_segment_paths) : completed_segment_paths[k] = k
    /\ Len(completed_segment_paths) <= NumPlanned
    /\ pc \notin {"start", "dest_guard", "orphan_cleanup", "resume_scan"} =>
          /\ resume_segment_idx <= Len(completed_segment_paths)
          /\ SegmentsLaunched \cap (1..resume_segment_idx) = {}
          /\ \A s \in (resume_segment_idx + 1)..Len(completed_segment_paths) :
                s \in SegmentsLaunched
    /\ process.kind = "concat" =>
          /\ Len(process.filelist) = NumPlanned
          /\ \A k \in 1..NumPlanned : process.filelist[k].path = k

(* Segment 1 was accepted by the scan, segments 2 and 3 were encoded and   *)
(* promoted, and the join runs on a manifest of three lines.               *)
C29_Witness ==
    /\ pc = "in_ffmpeg"
    /\ process.kind = "concat"
    /\ NumPlanned = 3
    /\ resume_segment_idx = 1
    /\ completed_segment_paths = <<1, 2, 3>>
    /\ Len(process.filelist) = 3

----
(* C30 as claimed: a run that got past the destination guard and ends      *)
(* otherwise than DONE leaves no destination file, so that the next run    *)
(* is not stopped by the guard.  A join that fails or is killed leaves     *)
(* what it had written of the destination, and nothing removes it.         *)
C30_NoDestinationUnlessDone ==
    (pc = "exited" /\ outcome \in {"STOPPED_BY_USER", "INCOMPLETE_FAILURE"}) =>
        dest = "absent"

----
(* C31 as claimed: after a run that ends DONE the destination exists,      *)
(* wherever the staging directory is.  With a staging directory that is    *)
(* or contains the destination's directory, the cleanup after the join     *)
(* removes the destination with the segments.                              *)
C31_DoneLeavesDestination ==
    (pc = "exited" /\ outcome = "DONE") => dest # "absent"

----
(* C32 as claimed: no backend process is launched while the graceful flag  *)
(* is set.  The flag is tested at the head of the encoding loop and in     *)
(* the final outcome; a signal that arrives after the test and before      *)
(* Popen finds the command launched all the same.                          *)
C32_NoLaunchOnceStopRequested ==
    [][launched' # launched => ~stop_requested_event]_vars

----
(* C33 as claimed: the scan deletes an existing final artifact only when   *)
(* its duration was determined and lies outside the tolerance, never when  *)
(* the probe gave no duration.  get_file_duration answers -1.0 for a       *)
(* failed probe and the scan treats that like any other wrong duration.    *)
C33_ScanKeepsUnprobedArtifact ==
    (pc \in {"resume_scan", "encode_loop"} /\ launched = <<>>) =>
        \A s \in deleted : fs0[s].dur # 0 - 1000

----
(* The frames a down-sampling run should keep: the numbers, as they were   *)
(* at the start, at the sorted positions floor(k * orig / target), k < K.  *)
SurvivorOf(k) ==
    resample.entries[((k - 1) * resample.orig_fps) \div resample.target_fps + 1]

(* C34 as claimed: after a run with target_fps < orig_fps the folder holds *)
(* exactly the files 1..K, the k-th with the content of the k-th survivor, *)
(* whatever number the frames started at.  With frames numbered from 0 and *)
(* a ratio below 2 the first rename takes the name of the second survivor. *)
C34_SurvivorsRenumberedIntact ==
    (/\ resample.pc \in {"encode", "exited"}
     /\ resample.entries # <<>>
     /\ resample.target_fps < resample.orig_fps) =>
        /\ resample.pc = "exited" => resample.renamed = Len(resample.keep)
        /\ { f.num : f \in resample.folder } = 1..resample.K
        /\ \A f \in resample.folder : f.content = SurvivorOf(f.num)

============================================================================
